---- MODULE Spec2Model ----
(***************************************************************************)
(* Model of the employee/customer matcher of scheduling.py:                *)
(* Employee, EmployeeCustomerMatcher (_build_graph, _bfs, match_customers, *)
(* get_matching_summary) and the scenario of main().                       *)
(*                                                                         *)
(* A run of match_customers is split at the points the loop of line 89     *)
(* passes through: the reset and graph construction (lines 69-86), one     *)
(* breadth-first search (line 89), one residual update (lines 90-104) and  *)
(* the conversion of the flow to matches (lines 106-117).  Nothing else    *)
(* runs between the steps of a run: the program is single-threaded.        *)
(*                                                                         *)
(* The scheduler of schedulingV2.py (match_staff_to_clients and the three  *)
(* functions it calls) has its own variables and its own specification,    *)
(* SpecV2; a step of it is one pass of the loop over the appointments of   *)
(* a client.                                                               *)
(***************************************************************************)
EXTENDS Integers, Sequences, FiniteSets, TLC

\* ---------------------------------------------------------------- bounds
MaxEmployees == 2
MaxCustomers == 2

\* ------------------------------------------------------------ identifiers
NameUniverse == <<"Alice", "Bob", "Charlie", "David", "Eve", "Frank", "Grace">>
CustomerUniverse == <<"Customer1", "Customer2", "Customer3", "Customer4">>

Customers == {CustomerUniverse[i] : i \in 1..MaxCustomers}

\* Python's None, as the value of Employee.assigned_customer
None == "None"

\* ------------------------------------------------------- list/dict helpers
Contains(s, v) == \E k \in 1..Len(s) : s[k] = v

Range(s) == {s[k] : k \in 1..Len(s)}

FirstIndex(s, v) == CHOOSE k \in 1..Len(s) : s[k] = v /\ \A m \in 1..(k - 1) : s[m] # v

\* list.remove(v): drops the first occurrence (the caller checks presence)
ListRemove(s, v) ==
    LET k == FirstIndex(s, v)
    IN  SubSeq(s, 1, k - 1) \o SubSeq(s, k + 1, Len(s))

\* {}
EmptyDict == <<>>

\* d[k] = v
DictSet(d, k, v) == (k :> v) @@ d

\* ------------------------------------------------------------- Employee
\* Employee.__init__
Employee(name, available, allowed_customers) ==
    [name |-> name, available |-> available,
     allowed_customers |-> allowed_customers, assigned_customer |-> None]

\* Employee.can_serve
can_serve(employee, customer) ==
    customer \in employee.allowed_customers /\ employee.assigned_customer = None

\* Employee.assign_customer: the employee after the call
assign_customer(employee, customer) ==
    IF can_serve(employee, customer)
    THEN [employee EXCEPT !.assigned_customer = customer]
    ELSE employee

\* Employee.clear_assignment
clear_assignment(employee) == [employee EXCEPT !.assigned_customer = None]

\* ------------------------------------------- the graph, a defaultdict(list)
\* keys in insertion order, and the list of each key
EmptyGraph == [keys |-> <<>>, adj |-> EmptyDict]

HasKey(g, u) == u \in DOMAIN g.adj

\* graph[u] on a missing key inserts it with an empty list
Touch(g, u) ==
    IF HasKey(g, u) THEN g
    ELSE [keys |-> Append(g.keys, u), adj |-> DictSet(g.adj, u, <<>>)]

Adj(g, u) == IF HasKey(g, u) THEN g.adj[u] ELSE <<>>

\* graph[u].append(v)
GraphAppend(g, u, v) ==
    LET h == Touch(g, u) IN [h EXCEPT !.adj[u] = Append(@, v)]

\* graph[u].remove(v)
GraphRemove(g, u, v) ==
    LET h == Touch(g, u) IN [h EXCEPT !.adj[u] = ListRemove(@, v)]

\* ------------------------------------------------ node numbering of a run
Source == 0

EmployeeNode(i) == i

\* enumerate(customers, len(self.employees) + 1)
CustomerNode(emps, j) == Len(emps) + j

\* sink = len(self.employees) + len(customers) + 1
SinkNode(emps, custs) == Len(emps) + Len(custs) + 1

\* ------------------------------------------------------------ _build_graph
\* SourceEdges without the test of line 37
RECURSIVE SourceEdgesAll(_, _)
SourceEdgesAll(emps, i) ==
    IF i > Len(emps) THEN <<>>
    ELSE <<EmployeeNode(i)>> \o SourceEdgesAll(emps, i + 1)

\* first loop: the list graph[0], employee i appended when available
RECURSIVE SourceEdges(_, _)
SourceEdges(emps, i) ==
    IF i > Len(emps) THEN <<>>
    ELSE (IF emps[i].available THEN <<EmployeeNode(i)>> ELSE <<>>)
         \o SourceEdges(emps, i + 1)

\* AllowedEdges without the test of line 44
RECURSIVE AllowedEdgesAll(_, _, _, _)
AllowedEdgesAll(emps, custs, i, j) ==
    IF j > Len(custs) THEN <<>>
    ELSE <<CustomerNode(emps, j)>> \o AllowedEdgesAll(emps, custs, i, j + 1)

\* inner loop of the second loop: the list graph[i], customer j appended
\* when allowed
RECURSIVE AllowedEdges(_, _, _, _)
AllowedEdges(emps, custs, i, j) ==
    IF j > Len(custs) THEN <<>>
    ELSE (IF custs[j] \in emps[i].allowed_customers
          THEN <<CustomerNode(emps, j)>> ELSE <<>>)
         \o AllowedEdges(emps, custs, i, j + 1)

\* second loop: the employees that get a key, those available with an edge
RECURSIVE EmployeeKeys(_, _, _)
EmployeeKeys(emps, custs, i) ==
    IF i > Len(emps) THEN <<>>
    ELSE (IF emps[i].available /\ AllowedEdges(emps, custs, i, 1) # <<>>
          THEN <<EmployeeNode(i)>> ELSE <<>>)
         \o EmployeeKeys(emps, custs, i + 1)

\* the dict returned: the source is the first key when it has an edge, the
\* employees follow in order
_build_graph(emps, custs) ==
    LET src == SourceEdges(emps, 1)
        keys == (IF src # <<>> THEN <<Source>> ELSE <<>>)
                \o EmployeeKeys(emps, custs, 1)
    IN  [keys |-> keys,
         adj |-> [u \in Range(keys) |->
                    IF u = Source THEN src ELSE AllowedEdges(emps, custs, u, 1)]]

\* SinkEdges whose range stops one request short
RECURSIVE SinkEdgesOffByOne(_, _, _, _)
SinkEdgesOffByOne(emps, custs, j, g) ==
    IF j >= Len(custs) THEN g
    ELSE SinkEdgesOffByOne(emps, custs, j + 1,
            GraphAppend(g, CustomerNode(emps, j), SinkNode(emps, custs)))

\* match_customers, lines 84-86: customer j -> sink
RECURSIVE SinkEdges(_, _, _, _)
SinkEdges(emps, custs, j, g) ==
    IF j > Len(custs) THEN g
    ELSE SinkEdges(emps, custs, j + 1,
            GraphAppend(g, CustomerNode(emps, j), SinkNode(emps, custs)))

\* -------------------------------------------------------------------- _bfs
\* BfsScan that looks at the first neighbour only
BfsScanFirstOnly(st, u, k, sink) ==
    IF Len(Adj(st.graph, u)) = 0 THEN st
    ELSE LET v == Adj(st.graph, u)[1]
         IN  IF v \notin st.visited
             THEN [st EXCEPT !.queue = Append(@, v),
                             !.visited = @ \cup {v},
                             !.parent = DictSet(@, v, u),
                             !.found = (v = sink)]
             ELSE st

\* BfsScan that keeps the parent entry a node has from an earlier search
RECURSIVE BfsScanKeepParent(_, _, _, _)
BfsScanKeepParent(st, u, k, sink) ==
    IF k > Len(Adj(st.graph, u)) THEN st
    ELSE LET v == Adj(st.graph, u)[k]
         IN  IF v \notin st.visited
             THEN LET st2 == [st EXCEPT !.queue = Append(@, v),
                                        !.visited = @ \cup {v},
                                        !.parent = IF v \in DOMAIN @ THEN @
                                                   ELSE DictSet(@, v, u)]
                  IN  IF v = sink THEN [st2 EXCEPT !.found = TRUE]
                      ELSE BfsScanKeepParent(st2, u, k + 1, sink)
             ELSE BfsScanKeepParent(st, u, k + 1, sink)

\* the for loop over graph[u], from position k on
RECURSIVE BfsScan(_, _, _, _)
BfsScan(st, u, k, sink) ==
    IF k > Len(Adj(st.graph, u)) THEN st
    ELSE LET v == Adj(st.graph, u)[k]
         IN  IF v \notin st.visited
             THEN LET st2 == [st EXCEPT !.queue = Append(@, v),
                                        !.visited = @ \cup {v},
                                        !.parent = DictSet(@, v, u)]
                  IN  IF v = sink THEN [st2 EXCEPT !.found = TRUE]
                      ELSE BfsScan(st2, u, k + 1, sink)
             ELSE BfsScan(st, u, k + 1, sink)

\* the while loop over the queue
RECURSIVE BfsLoop(_, _)
BfsLoop(st, sink) ==
    IF st.found \/ st.queue = <<>> THEN st
    ELSE LET u == Head(st.queue)
             st1 == [st EXCEPT !.queue = Tail(@), !.graph = Touch(@, u)]
         IN  BfsLoop(BfsScan(st1, u, 1, sink), sink)

\* _bfs: .found is the value returned, .parent and .graph are the dicts after
\* the call (graph[u] inserts the keys it reads)
_bfs(graph, source, sink, parent) ==
    BfsLoop([graph |-> graph, queue |-> <<source>>, visited |-> {source},
             parent |-> DictSet(parent, source, -1), found |-> FALSE], sink)

\* UpdateResidual that installs no reverse edge (line 103 missing)
RECURSIVE UpdateResidualNoReverse(_, _, _)
UpdateResidualNoReverse(g, parent, v) ==
    IF v = 0 THEN [graph |-> g, raised |-> FALSE]
    ELSE IF v \notin DOMAIN parent THEN [graph |-> g, raised |-> TRUE]
    ELSE LET u == parent[v]
         IN  IF ~Contains(Adj(g, u), v) THEN [graph |-> Touch(g, u), raised |-> TRUE]
             ELSE UpdateResidualNoReverse(GraphRemove(g, u, v), parent, u)

\* UpdateResidual that leaves the forward edges in place (line 102 missing)
RECURSIVE UpdateResidualKeepForward(_, _, _)
UpdateResidualKeepForward(g, parent, v) ==
    IF v = 0 THEN [graph |-> g, raised |-> FALSE]
    ELSE IF v \notin DOMAIN parent THEN [graph |-> g, raised |-> TRUE]
    ELSE LET u == parent[v]
         IN  UpdateResidualKeepForward(GraphAppend(Touch(g, u), v, u), parent, u)

\* UpdateResidual that leaves the edge out of the source in place
RECURSIVE UpdateResidualKeepSource(_, _, _)
UpdateResidualKeepSource(g, parent, v) ==
    IF v = 0 THEN [graph |-> g, raised |-> FALSE]
    ELSE IF v \notin DOMAIN parent THEN [graph |-> g, raised |-> TRUE]
    ELSE LET u == parent[v]
         IN  IF ~Contains(Adj(g, u), v) THEN [graph |-> Touch(g, u), raised |-> TRUE]
             ELSE UpdateResidualKeepSource(
                    IF u = 0 THEN g ELSE GraphAppend(GraphRemove(g, u, v), v, u),
                    parent, u)

\* ------------------------------------------ match_customers, lines 90-104
\* the two walks from the sink along parent; list.remove raises ValueError
\* when the edge is absent, parent[v] raises KeyError when v has no entry
RECURSIVE UpdateResidual(_, _, _)
UpdateResidual(g, parent, v) ==
    IF v = Source THEN [graph |-> g, raised |-> FALSE]
    ELSE IF v \notin DOMAIN parent THEN [graph |-> g, raised |-> TRUE]
    ELSE LET u == parent[v]
         IN  IF ~Contains(Adj(g, u), v) THEN [graph |-> Touch(g, u), raised |-> TRUE]
             ELSE UpdateResidual(GraphAppend(GraphRemove(g, u, v), v, u), parent, u)

\* AddPathFlow that loses the unit of the path
AddPathFlowNone(flow) == flow

\* max_flow += path_flow, path_flow = min(Inf, 1, ...) = 1
AddPathFlow(flow) == flow + 1

\* ------------------------------------------ match_customers, lines 106-117
\* ConvertScan that reads the forward edges employee -> customer left in
\* the graph in place of the reverse edges
RECURSIVE ConvertScanForward(_, _, _, _)
ConvertScanForward(st, custs, i, k) ==
    IF st.raised \/ k > Len(st.graph.keys) THEN st
    ELSE LET v == st.graph.keys[k]
             n == Len(st.employees)
         IN  IF Contains(Adj(st.graph, EmployeeNode(i)), v) /\ v > n
             THEN IF v - n > Len(custs)
                  THEN [st EXCEPT !.raised = TRUE]
                  ELSE LET customer == custs[v - n]
                       IN  ConvertScanForward(
                             [st EXCEPT
                                !.employees[i] = assign_customer(@, customer),
                                !.matches = DictSet(@, customer, i),
                                !.unmatched_customers = @ \ {customer}],
                             custs, i, k + 1)
             ELSE ConvertScanForward(st, custs, i, k + 1)

\* for v in graph, from key position k on, for employee i
RECURSIVE ConvertScan(_, _, _, _)
ConvertScan(st, custs, i, k) ==
    IF st.raised \/ k > Len(st.graph.keys) THEN st
    ELSE LET v == st.graph.keys[k]
             n == Len(st.employees)
         IN  IF Contains(st.graph.adj[v], EmployeeNode(i)) /\ v > n
             THEN IF v - n > Len(custs)
                  THEN [st EXCEPT !.raised = TRUE]    \* IndexError
                  ELSE LET customer == custs[v - n]
                       IN  ConvertScan(
                             [st EXCEPT
                                !.employees[i] = assign_customer(@, customer),
                                !.matches = DictSet(@, customer, i),
                                !.unmatched_customers = @ \ {customer}],
                             custs, i, k + 1)
             ELSE ConvertScan(st, custs, i, k + 1)

\* for i, employee in enumerate(self.employees, 1)
RECURSIVE ConvertLoop(_, _, _)
ConvertLoop(st, custs, i) ==
    IF st.raised \/ i > Len(st.employees) THEN st
    ELSE ConvertLoop(IF st.employees[i].available
                     THEN ConvertScan(st, custs, i, 1) ELSE st,
                     custs, i + 1)

ConvertFlow(emps, g, custs, m, unmatched) ==
    ConvertLoop([employees |-> emps, graph |-> g, matches |-> m,
                 unmatched_customers |-> unmatched, raised |-> FALSE], custs, 1)

\* ---------------------------------------------------- get_matching_summary
\* AvailableEmployees without the test of the assignment
RECURSIVE AvailableEmployeesAssigned(_, _)
AvailableEmployeesAssigned(emps, i) ==
    IF i > Len(emps) THEN <<>>
    ELSE (IF emps[i].available THEN <<emps[i].name>> ELSE <<>>)
         \o AvailableEmployeesAssigned(emps, i + 1)

\* [emp.name for emp in self.employees if emp.assigned_customer == None and emp.available]
RECURSIVE AvailableEmployees(_, _)
AvailableEmployees(emps, i) ==
    IF i > Len(emps) THEN <<>>
    ELSE (IF emps[i].assigned_customer = None /\ emps[i].available
          THEN <<emps[i].name>> ELSE <<>>)
         \o AvailableEmployees(emps, i + 1)

\* [emp.name for emp in self.employees if not emp.available]
RECURSIVE UnavailableEmployees(_, _)
UnavailableEmployees(emps, i) ==
    IF i > Len(emps) THEN <<>>
    ELSE (IF ~emps[i].available THEN <<emps[i].name>> ELSE <<>>)
         \o UnavailableEmployees(emps, i + 1)

\* len(self.matches)
SuccessfulMatches(m) == Cardinality(DOMAIN m)

get_matching_summary(emps, m, unmatched) ==
    [successful_matches |-> SuccessfulMatches(m),
     unmatched_customers |-> unmatched,
     matches |-> [c \in DOMAIN m |-> emps[m[c]].name],
     available_employees |-> AvailableEmployees(emps, 1),
     unavailable_employees |-> UnavailableEmployees(emps, 1)]

\* ------------------------------------------ match_customers, lines 69-86
\* ClearAssignments that clears nothing (lines 70-71 missing)
ClearAssignmentsSkip(emps) == emps

\* for employee in self.employees: employee.clear_assignment()
ClearAssignments(emps) == [i \in 1..Len(emps) |-> clear_assignment(emps[i])]

\* ResetUnmatched that keeps the earlier set and adds to it
ResetUnmatchedKeep(unmatched, custs) == unmatched \cup Range(custs)

\* self.unmatched_customers = set(customers)
ResetUnmatched(unmatched, custs) == Range(custs)

\* ResetMatches that keeps the earlier entries
ResetMatchesKeep(m) == m

\* self.matches = {}
ResetMatches(m) == EmptyDict

\* graph = self._build_graph(customers), then the edges to the sink
InitialNetwork(emps, custs) == SinkEdges(emps, custs, 1, _build_graph(emps, custs))

\* the while loop of line 89 as a whole: search, update, search, ...
RECURSIVE FlowLoop(_, _, _, _)
FlowLoop(g, par, flow, sink) ==
    LET b == _bfs(g, Source, sink, par)
    IN  IF ~b.found
        THEN [graph |-> b.graph, parent |-> b.parent, max_flow |-> flow,
              raised |-> FALSE]
        ELSE LET u == UpdateResidual(b.graph, b.parent, sink)
             IN  IF u.raised
                 THEN [graph |-> u.graph, parent |-> b.parent,
                       max_flow |-> AddPathFlow(flow), raised |-> TRUE]
                 ELSE FlowLoop(u.graph, b.parent, AddPathFlow(flow), sink)

\* match_customers as one call, on a matcher holding emps, m and unmatched
match_customers(emps, m, unmatched, custs) ==
    LET f == FlowLoop(InitialNetwork(emps, custs), EmptyDict, 0,
                      SinkNode(emps, custs))
        r == ConvertFlow(ClearAssignments(emps), f.graph, custs,
                         ResetMatches(m), ResetUnmatched(unmatched, custs))
    IN  [employees |-> r.employees, matches |-> r.matches,
         unmatched_customers |-> r.unmatched_customers,
         max_flow |-> f.max_flow, raised |-> f.raised \/ r.raised]

\* employee.available = b on the i-th employee (main, line 184)
WithAvailability(emps, i, b) == [emps EXCEPT ![i].available = b]

\* ------------------------------------------------------------------- state
VARIABLES
    employees,            \* self.employees: the Employee objects, in order
    unmatched_customers,  \* self.unmatched_customers
    matches,              \* self.matches: customer -> position of its employee
    customers,            \* the argument of the run
    graph,                \* the local graph of the run
    parent,               \* the local parent of the run
    max_flow,             \* the local max_flow of the run
    pc,                   \* IDLE, SEARCHING, AUGMENTING, DONE or RAISED
    summary,              \* <<value>> returned by get_matching_summary, until
                          \* the caller has used it, else <<>>
    stale                 \* history: the run began on a matcher that held the
                          \* results of an earlier run

\* schedulingV2.py, match_staff_to_clients
VARIABLES
    staff_list,                \* the staff_list argument
    clients,                   \* the clients argument
    schedule,                  \* schedule: client name -> appointment -> staff
    staff_assigned_intervals,  \* staff name -> the intervals assigned to it
    client,                    \* position of the client of the outer loop
    appointment                \* position of the next appointment of that client

v2vars == <<staff_list, clients, schedule, staff_assigned_intervals, client,
            appointment>>

matcher_vars == <<employees, unmatched_customers, matches, customers, graph,
                  parent, max_flow, pc, summary, stale>>

vars == <<employees, unmatched_customers, matches, customers, graph, parent,
          max_flow, pc, summary, stale, staff_list, clients, schedule,
          staff_assigned_intervals, client, appointment>>

\* The locals of match_customers keep their final values while pc = "DONE"
\* (the run has returned and the caller has changed nothing since); the next
\* change by the caller discards them.
locals == <<customers, graph, parent, max_flow, stale>>

DiscardLocals ==
    /\ customers' = <<>>
    /\ graph' = EmptyGraph
    /\ parent' = EmptyDict
    /\ max_flow' = 0
    /\ stale' = FALSE

\* match_staff_to_clients has not been called
NotScheduling ==
    /\ staff_list = <<>>
    /\ clients = <<>>
    /\ schedule = EmptyDict
    /\ staff_assigned_intervals = EmptyDict
    /\ client = 0
    /\ appointment = 0

\* EmployeeCustomerMatcher.__init__
NewMatcher ==
    /\ employees = <<>>
    /\ unmatched_customers = {}
    /\ matches = EmptyDict
    /\ customers = <<>>
    /\ graph = EmptyGraph
    /\ parent = EmptyDict
    /\ max_flow = 0
    /\ pc = "IDLE"
    /\ summary = <<>>
    /\ stale = FALSE

Init == NewMatcher /\ NotScheduling

\* no run of match_customers is in progress
Between == pc \in {"IDLE", "DONE"}

\* the caller can make its next call: it holds no summary it has yet to use
Callable == Between /\ summary = <<>>

\* ----------------------------------------------------------------- actions
\* EmployeeCustomerMatcher.add_employee
add_employee(employee) ==
    /\ Callable
    /\ employees' = Append(employees, employee)
    /\ pc' = "IDLE"
    /\ summary' = <<>>
    /\ DiscardLocals
    /\ UNCHANGED <<unmatched_customers, matches>>
    /\ UNCHANGED v2vars

\* main, line 184 (employee.available = ...), between two runs
SetAvailable(i, b) ==
    /\ Callable
    /\ i \in 1..Len(employees)
    /\ employees' = WithAvailability(employees, i, b)
    /\ pc' = "IDLE"
    /\ summary' = <<>>
    /\ DiscardLocals
    /\ UNCHANGED <<unmatched_customers, matches>>
    /\ UNCHANGED v2vars

\* match_customers, lines 69-86: reset, build the network
Begin(custs) ==
    /\ Callable
    /\ employees' = ClearAssignments(employees)
    /\ unmatched_customers' = ResetUnmatched(unmatched_customers, custs)
    /\ matches' = ResetMatches(matches)
    /\ customers' = custs
    /\ graph' = InitialNetwork(employees, custs)
    /\ parent' = EmptyDict
    /\ max_flow' = 0
    /\ pc' = "SEARCHING"
    /\ summary' = <<>>
    /\ stale' = (\/ matches # EmptyDict
                 \/ unmatched_customers # {}
                 \/ \E i \in 1..Len(employees) : employees[i].assigned_customer # None)
    /\ UNCHANGED v2vars

\* match_customers, line 89: one call of _bfs; when it returns False the loop
\* ends and lines 106-117 convert the flow and return
Search ==
    /\ pc = "SEARCHING"
    /\ LET b == _bfs(graph, Source, SinkNode(employees, customers), parent)
       IN  /\ graph' = b.graph
           /\ parent' = b.parent
           /\ IF b.found
              THEN /\ pc' = "AUGMENTING"
                   /\ UNCHANGED <<employees, unmatched_customers, matches>>
              ELSE LET r == ConvertFlow(employees, b.graph, customers,
                                        matches, unmatched_customers)
                   IN  /\ employees' = r.employees
                       /\ matches' = r.matches
                       /\ unmatched_customers' = r.unmatched_customers
                       /\ pc' = IF r.raised THEN "RAISED" ELSE "DONE"
    /\ UNCHANGED <<customers, max_flow, summary, stale>>
    /\ UNCHANGED v2vars

\* match_customers, lines 90-104: one flow update along the path found
Augment ==
    /\ pc = "AUGMENTING"
    /\ LET u == UpdateResidual(graph, parent, SinkNode(employees, customers))
       IN  /\ graph' = u.graph
           /\ pc' = IF u.raised THEN "RAISED" ELSE "SEARCHING"
    /\ max_flow' = AddPathFlow(max_flow)
    /\ UNCHANGED <<employees, unmatched_customers, matches, customers, parent,
                   summary, stale>>
    /\ UNCHANGED v2vars

\* a call of get_matching_summary (again, or after any other call)
GetSummary ==
    /\ Between
    /\ summary' = <<get_matching_summary(employees, matches, unmatched_customers)>>
    /\ UNCHANGED <<employees, unmatched_customers, matches, locals, pc>>
    /\ UNCHANGED v2vars

\* the caller has used the summary returned to it and goes on
UseSummary ==
    /\ summary # <<>>
    /\ summary' = <<>>
    /\ UNCHANGED <<employees, unmatched_customers, matches, locals, pc>>
    /\ UNCHANGED v2vars

\* ------------------------------------------------------------------ inputs
SeqsUpTo(S, n) == UNION {[1..k -> S] : k \in 0..n}

CustomerIndex(c) == CHOOSE k \in 1..Len(CustomerUniverse) : CustomerUniverse[k] = c

\* request lists with unique identifiers; a list in another order is one of
\* these with the requests renamed, and the eligible sets range over every
\* subset of the names
CustomerLists ==
    {s \in SeqsUpTo(Customers, MaxCustomers) :
        \A a, b \in 1..Len(s) : a < b => CustomerIndex(s[a]) < CustomerIndex(s[b])}

\* the next employee registered carries the next unused name
AddEmployee ==
    /\ Len(employees) < MaxEmployees
    /\ \E a \in BOOLEAN, al \in SUBSET Customers :
          add_employee(Employee(NameUniverse[Len(employees) + 1], a, al))

\* the caller flips the availability of one employee
ChangeAvailability ==
    \E i \in 1..Len(employees) : SetAvailable(i, ~employees[i].available)

MatchCustomers == \E custs \in CustomerLists : Begin(custs)

Next ==
    \/ AddEmployee
    \/ ChangeAvailability
    \/ MatchCustomers
    \/ Search
    \/ Augment
    \/ GetSummary
    \/ UseSummary

Spec == Init /\ [][Next]_vars

\* A run of match_customers goes on to its end: the caller gets control
\* back only when it returns, so a search or an update that can run does.
\* Search can run in every state with pc = "SEARCHING" and Augment in every
\* state with pc = "AUGMENTING", and the steps that leave these states are
\* theirs: the fairness of the two is stated on the steps that leave.
SearchReturns == pc = "SEARCHING" /\ pc' \in {"AUGMENTING", "DONE", "RAISED"}

AugmentReturns == pc = "AUGMENTING" /\ pc' \in {"SEARCHING", "RAISED"}

SpecFair == Spec /\ WF_pc(SearchReturns) /\ WF_pc(AugmentReturns)

\* ------------------------------------------------------- the run of main
\* main, lines 140-153
MainEmployees ==
    << Employee("Alice", TRUE, {"Customer1", "Customer2"}),
       Employee("Bob", TRUE, {"Customer2", "Customer3"}),
       Employee("Charlie", TRUE, {"Customer3", "Customer4"}),
       Employee("David", TRUE, {"Customer1", "Customer2", "Customer3", "Customer4"}),
       Employee("Eve", TRUE, {"Customer1", "Customer2", "Customer3", "Customer4"}),
       Employee("Frank", TRUE, {"Customer1", "Customer4"}),
       Employee("Grace", TRUE, {"Customer2", "Customer3"}) >>

\* main, line 159
MainCustomers == <<"Customer1", "Customer2", "Customer3", "Customer4">>

\* main, lines 155-156: the employees are registered in the order of the list
MainAddEmployee ==
    /\ Len(employees) < Len(MainEmployees)
    /\ add_employee(MainEmployees[Len(employees) + 1])

\* main, lines 167 and 187
MainMatch ==
    /\ Len(employees) = Len(MainEmployees)
    /\ Begin(MainCustomers)

\* main, lines 182-184, for any employee in place of David and Eve
MainUnavailable ==
    \E i \in 1..Len(employees) :
        /\ Len(employees) = Len(MainEmployees)
        /\ employees[i].available
        /\ SetAvailable(i, FALSE)

NextMain ==
    \/ MainAddEmployee
    \/ MainMatch
    \/ MainUnavailable
    \/ Search
    \/ Augment
    \/ GetSummary
    \/ UseSummary

SpecMain == Init /\ [][NextMain]_vars

\* ------------------------------------- inputs with repeated identifiers
\* request lists in which a request may be named twice
CustomerListsDup == SeqsUpTo(Customers, MaxCustomers)

\* the employee registered carries the next unused name or the name of the
\* first employee (another Employee object with the same identifier)
AddEmployeeDup ==
    /\ Len(employees) < MaxEmployees
    /\ \E n \in {NameUniverse[1], NameUniverse[Len(employees) + 1]},
          a \in BOOLEAN, al \in SUBSET Customers :
          add_employee(Employee(n, a, al))

MatchCustomersDup == \E custs \in CustomerListsDup : Begin(custs)

NextDup ==
    \/ AddEmployeeDup
    \/ MatchCustomersDup
    \/ Search
    \/ Augment
    \/ GetSummary
    \/ UseSummary

SpecDup == Init /\ [][NextDup]_vars

\* ============================================ schedulingV2.py, the scheduler
MaxStaff == 2
MaxClients == 2

StaffNames == <<"Alison", "Cheyenne", "Chrissie">>
ClientNames == <<"Jim", "Roy", "Peter">>

\* an interval (start, end)
Interval(s, e) == <<s, e>>

\* can_cover_appointment: one availability interval holds the appointment
can_cover_appointment(staff_available_hours, appt) ==
    \E k \in 1..Len(staff_available_hours) :
        /\ staff_available_hours[k][1] <= appt[1]
        /\ staff_available_hours[k][2] >= appt[2]

\* intervals_overlap that counts touching intervals as overlapping
IntervalsOverlapTouching(interval1, interval2) ==
    interval1[1] <= interval2[2] /\ interval1[2] >= interval2[1]

\* intervals_overlap
intervals_overlap(interval1, interval2) ==
    interval1[1] < interval2[2] /\ interval1[2] > interval2[1]

\* staff_assigned_intervals[staff_name]: the list, empty for a missing key
AssignedIntervals(assigned, staff_name) ==
    IF staff_name \in DOMAIN assigned THEN assigned[staff_name] ELSE <<>>

\* the dict after staff_assigned_intervals[staff_name] was read: a
\* defaultdict inserts the missing key
TouchIntervals(assigned, staff_name) ==
    IF staff_name \in DOMAIN assigned THEN assigned
    ELSE DictSet(assigned, staff_name, <<>>)

\* can_assign_appointment
can_assign_appointment(staff_name, appt, assigned) ==
    \A k \in 1..Len(AssignedIntervals(assigned, staff_name)) :
        ~intervals_overlap(AssignedIntervals(assigned, staff_name)[k], appt)

\* match_staff_to_clients, lines 60-77: the loop over staff_list from
\* position k on, for the appointment appt of the client client_name
RECURSIVE StaffLoop(_, _, _, _, _)
StaffLoop(staff, client_name, appt, assigned, k) ==
    IF k > Len(staff)
    THEN [assigned_staff |-> None, staff_assigned_intervals |-> assigned]
    ELSE IF ~staff[k].available
         THEN StaffLoop(staff, client_name, appt, assigned, k + 1)
    ELSE IF client_name \notin staff[k].allowed_clients
         THEN StaffLoop(staff, client_name, appt, assigned, k + 1)
    ELSE IF ~can_cover_appointment(staff[k].available_hours, appt)
         THEN StaffLoop(staff, client_name, appt, assigned, k + 1)
    ELSE LET read == TouchIntervals(assigned, staff[k].name)
         IN  IF can_assign_appointment(staff[k].name, appt, assigned)
             THEN [assigned_staff |-> staff[k].name,
                   staff_assigned_intervals |->
                      [read EXCEPT ![staff[k].name] = Append(@, appt)]]
             ELSE StaffLoop(staff, client_name, appt, read, k + 1)

\* the appointments of the client of the outer loop
AppointmentTimes == IF client = 0 THEN <<>> ELSE clients[client].appointment_times

\* match_staff_to_clients, lines 51-54: the next client, its empty schedule
EnterClient ==
    /\ appointment > Len(AppointmentTimes)
    /\ client < Len(clients)
    /\ client' = client + 1
    /\ appointment' = 1
    /\ schedule' = DictSet(schedule, clients[client + 1].name, EmptyDict)
    /\ UNCHANGED <<staff_list, clients, staff_assigned_intervals>>
    /\ UNCHANGED matcher_vars

\* match_staff_to_clients, lines 56-79: one appointment of the client
AssignAppointment ==
    /\ appointment <= Len(AppointmentTimes)
    /\ LET client_name == clients[client].name
           appt == AppointmentTimes[appointment]
           r == StaffLoop(staff_list, client_name, appt,
                          staff_assigned_intervals, 1)
       IN  /\ staff_assigned_intervals' = r.staff_assigned_intervals
           /\ schedule' = DictSet(schedule, client_name,
                                  DictSet(schedule[client_name], appt,
                                          r.assigned_staff))
    /\ appointment' = appointment + 1
    /\ UNCHANGED <<staff_list, clients, client>>
    /\ UNCHANGED matcher_vars

\* the schedule is returned (line 81): both loops are over
ScheduleReturned ==
    client = Len(clients) /\ appointment > Len(AppointmentTimes)

\* --- the arguments
\* available_hours: one interval over the day, or the day in two halves
HoursLists ==
    { <<Interval(0, 2)>>, <<Interval(0, 1), Interval(1, 2)>> }

\* appointment_times: the whole day, two halves, the whole day and a half,
\* or the same half twice
AppointmentLists ==
    { <<Interval(0, 2)>>, <<Interval(0, 1), Interval(1, 2)>>,
      <<Interval(0, 2), Interval(1, 2)>>, <<Interval(0, 1), Interval(0, 1)>> }

ClientsInUse == {ClientNames[i] : i \in 1..MaxClients}

\* the k-th staff member: unavailable (with every client and the whole day),
\* or available with any clients and hours
StaffMembers(k) ==
    { [name |-> StaffNames[k], available |-> FALSE,
       available_hours |-> <<Interval(0, 2)>>, allowed_clients |-> ClientsInUse] }
    \cup
    { [name |-> StaffNames[k], available |-> TRUE,
       available_hours |-> h, allowed_clients |-> al] :
          h \in HoursLists, al \in SUBSET ClientsInUse }

StaffLists ==
    UNION { {s \in [1..n -> UNION {StaffMembers(k) : k \in 1..n}] :
                \A k \in 1..n : s[k] \in StaffMembers(k)} : n \in 0..MaxStaff }

ClientLists ==
    UNION { {c \in [1..n -> [name : ClientsInUse, appointment_times : AppointmentLists]] :
                \A k \in 1..n : c[k].name = ClientNames[k]} : n \in 0..MaxClients }

\* match_staff_to_clients(staff_list, clients), lines 47-49
InitV2 ==
    /\ NewMatcher
    /\ staff_list \in StaffLists
    /\ clients \in ClientLists
    /\ schedule = EmptyDict
    /\ staff_assigned_intervals = EmptyDict
    /\ client = 0
    /\ appointment = 1

NextV2 ==
    \/ EnterClient
    \/ AssignAppointment

SpecV2 == InitV2 /\ [][NextV2]_vars

\* ================================================================== claims
\* the run has returned and the caller has changed nothing since
Returned == pc = "DONE"

InRun == pc \in {"SEARCHING", "AUGMENTING", "DONE", "RAISED"}

Count(m) == Cardinality(DOMAIN m)

\* --- the eligibility relation and its matchings, by enumeration
Eligible(emps, custs, i, j) ==
    emps[i].available /\ custs[j] \in emps[i].allowed_customers

\* one-to-one assignments of request positions to server positions
Assignments(emps, custs) ==
    {f \in UNION {[S -> 1..Len(emps)] : S \in SUBSET (1..Len(custs))} :
        /\ \A j \in DOMAIN f : Eligible(emps, custs, f[j], j)
        /\ \A a, b \in DOMAIN f : f[a] = f[b] => a = b}

MaxMatchingSize(emps, custs) ==
    LET sizes == {Cardinality(DOMAIN f) : f \in Assignments(emps, custs)}
    IN  CHOOSE n \in sizes : \A k \in sizes : k <= n

\* C1: the matches returned by a run have as many pairs as a maximum
\* bipartite matching of the available servers and the requests.
C1_MaximumMatching ==
    Returned => Count(matches) = MaxMatchingSize(employees, customers)

\* a run in which the first server ends on its second choice: the first
\* path found gave it the first request, a later path rerouted it
C1_Witness ==
    /\ Returned
    /\ Count(matches) = 2
    /\ Len(customers) = 2
    /\ customers[1] \in employees[1].allowed_customers
    /\ employees[1].assigned_customer = customers[2]

\* C2: every entry of matches is a legal pair: the request is in the list of
\* the run, the server was available and has the request in its eligible set.
C2_LegalPairs ==
    Returned =>
        \A c \in DOMAIN matches :
            /\ c \in Range(customers)
            /\ matches[c] \in 1..Len(employees)
            /\ employees[matches[c]].available
            /\ c \in employees[matches[c]].allowed_customers

C2_Witness ==
    /\ Returned
    /\ matches # EmptyDict
    /\ \E i \in 1..Len(employees) :
          /\ ~employees[i].available
          /\ employees[i].allowed_customers \cap Range(customers) # {}
    /\ \E i \in 1..Len(employees) :
          /\ employees[i].available
          /\ employees[i].allowed_customers \ Range(customers) # {}

\* C3: no server is the value of two entries of matches (and a request is the
\* key of one entry at most, matches being a dict).
C3_CapacityRespect ==
    \A c1, c2 \in DOMAIN matches : matches[c1] = matches[c2] => c1 = c2

\* two servers matched, one of which could have served both requests
C3_Witness ==
    /\ Returned
    /\ Count(matches) = 2
    /\ \E c \in DOMAIN matches :
          DOMAIN matches \subseteq employees[matches[c]].allowed_customers

\* --- reachability in the residual graph, as a fixed point
RECURSIVE ReachableFrom(_, _)
ReachableFrom(g, S) ==
    LET T == S \cup UNION {Range(Adj(g, u)) : u \in S}
    IN  IF T = S THEN S ELSE ReachableFrom(g, T)

\* C4: when the run returns the residual graph has no path from the source to
\* the sink, and no unmatched request has an available, eligible server
\* without an assignment.
C4_Maximality ==
    Returned =>
        /\ SinkNode(employees, customers) \notin ReachableFrom(graph, {Source})
        /\ \A c \in unmatched_customers :
              ~\E i \in 1..Len(employees) :
                  /\ employees[i].available
                  /\ c \in employees[i].allowed_customers
                  /\ employees[i].assigned_customer = None

\* a request stays unmatched although an available server allows it
C4_Witness ==
    /\ Returned
    /\ max_flow >= 1
    /\ \E c \in unmatched_customers :
          \E i \in 1..Len(employees) :
              employees[i].available /\ c \in employees[i].allowed_customers

\* C5: successful_matches of the summary = number of entries of matches =
\* the final max_flow of the run.
C5_Conservation ==
    Returned =>
        /\ get_matching_summary(employees, matches,
                                unmatched_customers).successful_matches = max_flow
        /\ Count(matches) = max_flow
        /\ summary # <<>> => summary[1].successful_matches = max_flow

C5_Witness ==
    /\ Returned
    /\ summary # <<>>
    /\ summary[1].successful_matches = 2
    /\ max_flow = 2

\* --- the same input on a matcher that has run nothing yet
FreshEmployees(emps) ==
    [i \in 1..Len(emps) |->
        Employee(emps[i].name, emps[i].available, emps[i].allowed_customers)]

FreshRun(emps, custs) == match_customers(FreshEmployees(emps), EmptyDict, {}, custs)

\* C6: a run gives the matches and the unmatched set that the same servers and
\* requests give on a matcher without history.
C6_FreshStart ==
    Returned =>
        LET f == FreshRun(employees, customers)
        IN  /\ matches = f.matches
            /\ unmatched_customers = f.unmatched_customers
            /\ employees = f.employees

\* a run that began on the results of an earlier run and matches less
C6_Witness ==
    /\ Returned
    /\ stale
    /\ Count(matches) = 1
    /\ unmatched_customers # {}

\* successful_matches of the run that follows when server i is made
\* unavailable in the present state and the same requests are matched again
CountWithout(i) ==
    Count(match_customers(WithAvailability(employees, i, FALSE), matches,
                          unmatched_customers, customers).matches)

\* C7: making one available server unavailable, all else fixed, never raises
\* successful_matches of the next run above that of the run before.
C7_MonotonicDegradation ==
    Returned =>
        \A i \in 1..Len(employees) :
            employees[i].available => CountWithout(i) <= Count(matches)

\* a matched server is lost and the next run still matches as many requests
C7_Witness ==
    /\ Returned
    /\ Count(matches) >= 1
    /\ \E i \in 1..Len(employees) :
          /\ employees[i].available
          /\ employees[i].assigned_customer # None
          /\ CountWithout(i) = Count(matches)

\* --- the reference scenario
UnavailableNames ==
    {employees[i].name : i \in {k \in 1..Len(employees) : ~employees[k].available}}

MatchedNames == {employees[matches[c]].name : c \in DOMAIN matches}

\* C8: the seven servers of main all available match the four requests; with
\* David and Eve made unavailable a run on the same matcher matches the four
\* requests again, with neither of the two, and reports them as unavailable.
C8_ReferenceScenario ==
    (Returned /\ customers = MainCustomers
              /\ FreshEmployees(employees) =
                    [i \in 1..Len(MainEmployees) |->
                        [MainEmployees[i] EXCEPT !.available = employees[i].available]])
    => LET sm == get_matching_summary(employees, matches, unmatched_customers)
       IN  /\ UnavailableNames = {} =>
                 /\ sm.successful_matches = 4
                 /\ sm.unmatched_customers = {}
                 /\ DOMAIN sm.matches = Range(MainCustomers)
           /\ UnavailableNames = {"David", "Eve"} =>
                 /\ sm.successful_matches = 4
                 /\ sm.unmatched_customers = {}
                 /\ DOMAIN sm.matches = Range(MainCustomers)
                 /\ MatchedNames \cap {"David", "Eve"} = {}
                 /\ sm.unavailable_employees = <<"David", "Eve">>

\* the second run of main has returned and its summary has been taken
C8_Witness ==
    /\ Returned
    /\ stale
    /\ customers = MainCustomers
    /\ summary # <<>>
    /\ summary[1].unavailable_employees = <<"David", "Eve">>
    /\ summary[1].successful_matches = 4

\* --- degenerate inputs
Degenerate ==
    \/ customers = <<>>
    \/ \A i \in 1..Len(employees) : ~employees[i].available

\* C9: a run without servers, without available server or without requests
\* goes from the first search straight to its return, with no match and
\* every request unmatched.
C9_DegenerateInputs ==
    (InRun /\ Degenerate) =>
        /\ pc \in {"SEARCHING", "DONE"}
        /\ max_flow = 0
        /\ matches = EmptyDict
        /\ unmatched_customers = Range(customers)
        /\ Returned =>
              get_matching_summary(employees, matches,
                                   unmatched_customers).successful_matches = 0

\* a returned run on servers that are all unavailable, after an earlier run
\* that matched
C9_Witness ==
    /\ Returned
    /\ stale
    /\ Len(employees) > 0
    /\ customers # <<>>
    /\ \A i \in 1..Len(employees) : ~employees[i].available
    /\ \E i \in 1..Len(employees) :
          employees[i].allowed_customers \cap Range(customers) # {}

\* C10: can_serve(server, request) is true iff the server is available, the
\* request is in its eligible set and it has no assignment.
C10_CanServeIffEligible ==
    \A i \in 1..Len(employees) :
        \A c \in Customers :
            can_serve(employees[i], c) <=>
                /\ employees[i].available
                /\ c \in employees[i].allowed_customers
                /\ employees[i].assigned_customer = None

\* --- the summary
\* the names of the servers of a list
NamesOf(emps) == [k \in 1..Len(emps) |-> emps[k].name]

IsIdle(e) == e.available /\ e.assigned_customer = None

IsUnavailable(e) == ~e.available

\* a call of get_matching_summary returns: summary takes a new value
SummaryReturned == summary' # summary /\ summary' # <<>>

\* C11: the summary returned right after a run has as unmatched_customers the
\* requests of the run that are not keys of matches, as matches the name of
\* the server of each matched request, as available_employees the available
\* servers without assignment and as unavailable_employees the unavailable
\* servers, both in insertion order; the call changes nothing of the matcher
\* or the servers, and a second call returns the same summary.
C11_SummaryContract ==
    [][(Returned /\ SummaryReturned) =>
          LET s == summary'[1]
          IN  /\ s.unmatched_customers = Range(customers) \ DOMAIN matches
              /\ DOMAIN s.matches = DOMAIN matches
              /\ \A c \in DOMAIN matches :
                    \E i \in 1..Len(employees) :
                        /\ employees[i].assigned_customer = c
                        /\ employees[i].name = s.matches[c]
              /\ s.available_employees = NamesOf(SelectSeq(employees, IsIdle))
              /\ s.unavailable_employees =
                    NamesOf(SelectSeq(employees, IsUnavailable))
              /\ UNCHANGED <<employees, unmatched_customers, matches, pc>>
              /\ get_matching_summary(employees', matches',
                                      unmatched_customers') = s]_vars

\* the summary of a run that matched one request and left one, with one
\* server matched and the other not
C11_Witness ==
    /\ Returned
    /\ summary # <<>>
    /\ Cardinality(DOMAIN summary[1].matches) = 1
    /\ summary[1].unmatched_customers # {}
    /\ Len(summary[1].available_employees) + Len(summary[1].unavailable_employees) = 1

\* --- repeated identifiers
HasDuplicate(s) == \E a, b \in 1..Len(s) : a # b /\ s[a] = s[b]

DuplicateInput == HasDuplicate(NamesOf(employees)) \/ HasDuplicate(customers)

\* C12: a run whose servers or requests repeat an identifier is rejected when
\* the network is built: it never searches, augments or returns a result.
C12_DuplicateRejected ==
    (InRun /\ DuplicateInput) => pc \notin {"SEARCHING", "AUGMENTING", "DONE"}

\* --- the schedule of match_staff_to_clients
\* the entries of the schedule: <<client name, appointment>>
Entries(sch) == UNION {{<<c, a>> : a \in DOMAIN sch[c]} : c \in DOMAIN sch}

StaffOf(sch, e) == sch[e[1]][e[2]]

Overlap(a, b) == a[1] < b[2] /\ a[2] > b[1]

\* the staff member at position k can take the appointment a of the client c
\* given the intervals assigned so far
Fits(k, c, a, assigned) ==
    /\ staff_list[k].available
    /\ c \in staff_list[k].allowed_clients
    /\ \E h \in Range(staff_list[k].available_hours) : h[1] <= a[1] /\ a[2] <= h[2]
    /\ \A b \in Range(AssignedIntervals(assigned, staff_list[k].name)) :
          ~Overlap(b, a)

\* the schedule sch has no staff member on two overlapping appointments, and
\* every staff member in it is available, allows the client and covers the
\* appointment with one availability interval
SoundSchedule(sch) ==
    /\ \A e1, e2 \in Entries(sch) :
          (e1 # e2 /\ StaffOf(sch, e1) # None /\ StaffOf(sch, e1) = StaffOf(sch, e2))
          => ~Overlap(e1[2], e2[2])
    /\ \A e \in Entries(sch) :
          StaffOf(sch, e) # None =>
              \E k \in 1..Len(staff_list) :
                  /\ staff_list[k].name = StaffOf(sch, e)
                  /\ Fits(k, e[1], e[2], EmptyDict)

\* C13: the schedule never has a staff member on two overlapping
\* appointments; a staff member in it is available, allows the client and
\* has one availability interval that holds the appointment; the entry
\* written for an appointment names the first staff member in list order
\* that meets these conditions and overlaps none of its intervals assigned so
\* far, and is None only when there is none.
C13_FirstFitSchedule ==
    [][(appointment' = appointment + 1) =>
          LET c == clients[client].name
              a == AppointmentTimes[appointment]
              fit == {k \in 1..Len(staff_list) :
                         Fits(k, c, a, staff_assigned_intervals)}
          IN  /\ SoundSchedule(schedule')
              /\ fit = {} => schedule'[c][a] = None
              /\ fit # {} =>
                    \E k \in fit : /\ \A m \in fit : k <= m
                                   /\ schedule'[c][a] = staff_list[k].name]_vars

\* a returned schedule in which one staff member has two appointments, and an
\* appointment has no staff although a staff member allows the client and
\* covers it: its intervals are what rules it out
C13_Witness ==
    /\ ScheduleReturned
    /\ \E n \in DOMAIN staff_assigned_intervals :
          Len(staff_assigned_intervals[n]) = 2
    /\ \E e \in Entries(schedule) :
          /\ StaffOf(schedule, e) = None
          /\ \E k \in 1..Len(staff_list) : Fits(k, e[1], e[2], EmptyDict)

\* --- the network of a run
\* the first search of the run is about to start
FirstSearch == pc = "SEARCHING" /\ max_flow = 0

NoDuplicate(s) == \A a, b \in 1..Len(s) : s[a] = s[b] => a = b

\* server i allows request j of the run
Allows(i, j) == customers[j] \in employees[i].allowed_customers

\* the graph has the nodes 0..N+M+1 and the edges source -> server i for the
\* available servers, server i -> request j where ServerEdge(i, j), request
\* j -> sink for every request, each once, and nothing else
NetworkIs(ServerEdge(_, _)) ==
    LET N == Len(employees)
        M == Len(customers)
    IN  /\ DOMAIN graph.adj \subseteq 0..(N + M + 1)
        /\ \A u \in DOMAIN graph.adj : NoDuplicate(graph.adj[u])
        /\ Range(Adj(graph, 0)) = {i \in 1..N : employees[i].available}
        /\ \A i \in 1..N :
              Range(Adj(graph, i)) = {N + j : j \in {k \in 1..M : ServerEdge(i, k)}}
        /\ \A j \in 1..M : Range(Adj(graph, N + j)) = {N + M + 1}
        /\ Range(Adj(graph, N + M + 1)) = {}

\* C14 as stated: the network of the first search has source -> server i iff
\* server i is available, server i -> request j iff request j is in the
\* eligible set of server i, request j -> sink for every j, over the nodes
\* 0, 1..N, N+1..N+M, N+M+1, no edge twice and no other edge.
C14_InitialNetwork == FirstSearch => NetworkIs(Allows)

AvailableAllows(i, j) == employees[i].available /\ Allows(i, j)

\* C14 amended: as above, with server i -> request j iff server i is
\* available and request j is in its eligible set.
C14_InitialNetworkAvailable == FirstSearch => NetworkIs(AvailableAllows)

\* the network of two servers that allow a request of the run, one available
\* and one not
C14_Witness ==
    /\ FirstSearch
    /\ \E i, k \in 1..Len(employees) :
          /\ employees[i].available
          /\ ~employees[k].available
          /\ \E j \in 1..Len(customers) : Allows(i, j) /\ Allows(k, j)

\* --- the search
\* the nodes from v back to the source along par, the source first; <<-2>>
\* in front when the walk leaves par or takes more than n steps
RECURSIVE ParentPath(_, _, _)
ParentPath(par, v, n) ==
    IF v = Source THEN <<v>>
    ELSE IF n = 0 \/ v \notin DOMAIN par THEN <<-2, v>>
    ELSE ParentPath(par, par[v], n - 1) \o <<v>>

\* number of edges of a shortest path of g from the nodes of frontier (at
\* distance d of the source) to target, -1 when there is none
RECURSIVE Distance(_, _, _, _, _)
Distance(g, frontier, seen, d, target) ==
    IF target \in frontier THEN d
    ELSE IF frontier = {} THEN -1
    ELSE LET nxt == UNION {Range(Adj(g, u)) : u \in frontier} \ seen
         IN  Distance(g, nxt, seen \cup nxt, d + 1, target)

\* C15: a search returns True iff the sink can be reached from the source in
\* the residual graph; the parent pointers it leaves then lead from the sink
\* to the source along a simple path of edges of that graph, and no path from
\* the source to the sink has fewer edges.
C15_ShortestAugmentingPath ==
    [][(pc = "SEARCHING") =>
          LET sink == SinkNode(employees, customers)
              path == ParentPath(parent', sink, sink + 1)
          IN  /\ (pc' = "AUGMENTING") <=> (sink \in ReachableFrom(graph, {Source}))
              /\ (pc' = "AUGMENTING") =>
                    /\ path[1] = Source
                    /\ NoDuplicate(path)
                    /\ \A k \in 1..(Len(path) - 1) :
                          Contains(Adj(graph, path[k]), path[k + 1])
                    /\ Len(path) - 1 = Distance(graph, {Source}, {Source}, 0, sink)]_vars

\* the second search of a run has found a path through a reverse edge: the
\* server matched first is moved to its other request
C15_Witness ==
    /\ pc = "AUGMENTING"
    /\ max_flow = 1
    /\ Len(ParentPath(parent, SinkNode(employees, customers), 6)) = 6

\* --- the flow carried by the residual graph
\* number of entries v of the list graph[u], repeated entries counted
EdgeCount(g, u, v) == Cardinality({k \in 1..Len(Adj(g, u)) : Adj(g, u)[k] = v})

RECURSIVE Sum(_, _)
Sum(f, S) ==
    IF S = {} THEN 0
    ELSE LET x == CHOOSE y \in S : TRUE IN f[x] + Sum(f, S \ {x})

ServerNodes == 1..Len(employees)

RequestNodes == (Len(employees) + 1)..(Len(employees) + Len(customers))

\* reverse edges server -> source
SourceFlow(g) == Sum([i \in ServerNodes |-> EdgeCount(g, i, Source)], ServerNodes)

\* reverse edges sink -> request
SinkFlow(g) ==
    Sum([j \in RequestNodes |-> EdgeCount(g, SinkNode(employees, customers), j)],
        RequestNodes)

\* reverse edges request j -> server i
PairFlow(g) ==
    Sum([e \in RequestNodes \X ServerNodes |-> EdgeCount(g, e[1], e[2])],
        RequestNodes \X ServerNodes)

FlowConserved(g, flow) ==
    /\ SourceFlow(g) = flow
    /\ SinkFlow(g) = flow
    /\ PairFlow(g) = flow
    /\ \A i \in ServerNodes :
          Sum([j \in RequestNodes |-> EdgeCount(g, j, i)], RequestNodes) <= 1
    /\ \A j \in RequestNodes :
          Sum([i \in ServerNodes |-> EdgeCount(g, j, i)], ServerNodes) <= 1

\* C16: whenever a search is about to start, the reverse edges server ->
\* source, the reverse edges sink -> request and the reverse edges request ->
\* server are each max_flow in number, no server has two reverse edges into
\* it and no request two reverse edges out of it; an update raises max_flow
\* by one.
C16_FlowConservation ==
    /\ []((pc = "SEARCHING") => FlowConserved(graph, max_flow))
    /\ [][(pc = "AUGMENTING") => max_flow' = max_flow + 1]_vars

\* a search about to start on a graph that carries two units of flow
C16_Witness ==
    /\ pc = "SEARCHING"
    /\ max_flow = 2
    /\ PairFlow(graph) = 2

\* --- termination
Min(a, b) == IF a <= b THEN a ELSE b

AvailableCount == Cardinality({i \in 1..Len(employees) : employees[i].available})

\* C17: a run that has begun searches and updates in turn and ends in DONE,
\* after at most min(available servers, requests) updates, which is at most
\* the number of servers.
C17_Termination ==
    /\ (pc = "SEARCHING") ~> (pc = "DONE")
    /\ [][/\ (pc = "SEARCHING") => pc' \in {"AUGMENTING", "DONE"}
          /\ (pc = "AUGMENTING") => pc' = "SEARCHING"]_vars
    /\ [](InRun => /\ max_flow <= Min(AvailableCount, Len(customers))
                   /\ max_flow <= Len(employees))

\* a run that ended after as many updates as there are servers
C17_Witness ==
    /\ Returned
    /\ max_flow = Len(employees)
    /\ max_flow = 2

\* --- the pairs read from the graph and the pairs recorded on the way
\* the reverse edges request -> server of g, as <<request node, server node>>
ReversePairs(g) ==
    {e \in RequestNodes \X ServerNodes : Contains(Adj(g, e[1]), e[2])}

\* the path of the update about to run, the source first
UpdatePath == ParentPath(parent, SinkNode(employees, customers),
                         SinkNode(employees, customers) + 1)

\* the pairs of the forward edges server -> request of the path
PathAdded ==
    {<<UpdatePath[k + 1], UpdatePath[k]>> :
        k \in {m \in 1..(Len(UpdatePath) - 1) :
                  UpdatePath[m] \in ServerNodes /\ UpdatePath[m + 1] \in RequestNodes}}

\* the pairs of the reverse edges request -> server of the path
PathRemoved ==
    {<<UpdatePath[k], UpdatePath[k + 1]>> :
        k \in {m \in 1..(Len(UpdatePath) - 1) :
                  UpdatePath[m] \in RequestNodes /\ UpdatePath[m + 1] \in ServerNodes}}

\* matches, as <<request node, server node>>
MatchPairs ==
    {<<Len(employees) + j, matches[customers[j]]>> :
        j \in {k \in 1..Len(customers) : customers[k] \in DOMAIN matches}}

\* C18: the reverse edges request -> server of the graph are the pairs a
\* record kept during the updates would hold: none when the run begins, and
\* after each update those before it, with a pair added for every forward
\* edge server -> request of the path and a pair removed for every reverse
\* edge request -> server of the path; the matches returned are these pairs,
\* each server of which is available and has the request as its assignment.
C18_ExtractionIsRecording ==
    /\ [](FirstSearch => ReversePairs(graph) = {})
    /\ [][(pc = "AUGMENTING") =>
             /\ PathAdded \cap PathRemoved = {}
             /\ PathRemoved \subseteq ReversePairs(graph)
             /\ ReversePairs(graph') =
                   (ReversePairs(graph) \ PathRemoved) \cup PathAdded]_vars
    /\ [](Returned =>
             /\ MatchPairs = ReversePairs(graph)
             /\ Cardinality(MatchPairs) = Count(matches)
             /\ \A e \in ReversePairs(graph) :
                   /\ employees[e[2]].available
                   /\ employees[e[2]].assigned_customer =
                         customers[e[1] - Len(employees)])

\* a returned run one update of which took a pair back: the first server is
\* matched to the second request although the first is in its eligible set
\* and both requests are matched
C18_Witness ==
    /\ Returned
    /\ Len(customers) = 2
    /\ ReversePairs(graph) = {<<Len(employees) + 2, 1>>, <<Len(employees) + 1, 2>>}
    /\ customers[1] \in employees[1].allowed_customers

\* --- the groups of a summary
\* number of the three groups of the summary s that hold the name n
GroupCount(s, n) ==
    (IF \E c \in DOMAIN s.matches : s.matches[c] = n THEN 1 ELSE 0)
    + (IF Contains(s.available_employees, n) THEN 1 ELSE 0)
    + (IF Contains(s.unavailable_employees, n) THEN 1 ELSE 0)

\* assigned_customer = r iff matches maps r to the server, for every server
AssignmentsAreMatches ==
    \A i \in 1..Len(employees) :
        \A r \in Customers :
            (employees[i].assigned_customer = r)
            <=> (r \in DOMAIN matches /\ matches[r] = i)

\* C19 as stated: in every summary returned, whatever the calls before it,
\* the name of each registered server is in exactly one of the values of
\* matches, available_employees and unavailable_employees, and
\* assigned_customer = r iff matches maps r to the server.
C19_SummaryPartition ==
    (Between /\ summary # <<>>) =>
        /\ \A i \in 1..Len(employees) : GroupCount(summary[1], employees[i].name) = 1
        /\ AssignmentsAreMatches

\* the server was made unavailable after the run that matched it
UnavailableSinceMatched(e) == ~e.available /\ e.assigned_customer # None

\* C19 amended: as above, except that a server made unavailable after the
\* run that matched it is in two groups, the values of matches and
\* unavailable_employees.
C19_SummaryPartitionUnlessChanged ==
    (Between /\ summary # <<>>) =>
        /\ \A i \in 1..Len(employees) :
              LET s == summary[1]
                  n == employees[i].name
              IN  IF UnavailableSinceMatched(employees[i])
                  THEN /\ GroupCount(s, n) = 2
                       /\ Contains(s.unavailable_employees, n)
                       /\ ~Contains(s.available_employees, n)
                  ELSE GroupCount(s, n) = 1
        /\ AssignmentsAreMatches

\* a summary taken after a run, the loss of a matched server and no new run:
\* one server in two groups, the other in one
C19_Witness ==
    /\ pc = "IDLE"
    /\ summary # <<>>
    /\ Len(employees) = 2
    /\ \E i, k \in 1..Len(employees) :
          /\ UnavailableSinceMatched(employees[i])
          /\ GroupCount(summary[1], employees[i].name) = 2
          /\ GroupCount(summary[1], employees[k].name) = 1

\* --- the edges of the residual graph
\* the edges <<u, v>> of a graph
Edges(g) == UNION {{<<u, v>> : v \in Range(g.adj[u])} : u \in DOMAIN g.adj}

\* the network the run began on
RunNetwork == InitialNetwork(employees, customers)

\* C20: during a run the adjacency lists hold no entry twice, every edge of
\* the initial network is in the graph in one direction and one only, the
\* graph has no other edge, every edge of the path of an update is in its
\* list once, and the run never raises.
C20_ResidualEdges ==
    InRun =>
        /\ pc # "RAISED"
        /\ \A u \in DOMAIN graph.adj : NoDuplicate(graph.adj[u])
        /\ \A e \in Edges(RunNetwork) :
              (e \in Edges(graph)) # (<<e[2], e[1]>> \in Edges(graph))
        /\ \A e \in Edges(graph) :
              e \in Edges(RunNetwork) \/ <<e[2], e[1]>> \in Edges(RunNetwork)
        /\ (pc = "AUGMENTING") =>
              \A k \in 1..(Len(UpdatePath) - 1) :
                  EdgeCount(graph, UpdatePath[k], UpdatePath[k + 1]) = 1

\* a returned run in which an edge server -> request of the initial network
\* is in its first direction between a matched server and a matched request
C20_Witness ==
    /\ Returned
    /\ \E e \in Edges(RunNetwork) \cap Edges(graph) :
          /\ e[1] \in ServerNodes
          /\ \E p, q \in ReversePairs(graph) : p[2] = e[1] /\ q[1] = e[2]

====
